---- MODULE Spec2Model ----
(***************************************************************************)
(* Gesture-driven particle tree: the gesture ingest service                *)
(* (src/services/geminiLiveService.ts), the application shell              *)
(* (src/unnamed/part_000: App, HandState, HandData) and the formation      *)
(* animator (src/components/Tree.tsx, src/components/Experience.tsx).      *)
(*                                                                         *)
(* Numbers are exact rationals <<n, d>> in lowest terms with d > 0; the    *)
(* pair <<0, 0>> stands for the IEEE value NaN.  A text fragment is a      *)
(* sequence of lexical tokens; the regular expression and JSON.parse are   *)
(* computed over that sequence.                                            *)
(***************************************************************************)
EXTENDS Integers, Sequences, FiniteSets, TLC

VARIABLES
    sessionPromise,      \* GeminiLiveService.sessionPromise
    onHandDataCallback,  \* GeminiLiveService.onHandDataCallback
    videoInterval,       \* GeminiLiveService.videoInterval (0 = null)
    timers,              \* interval timers alive in the window
    thens,               \* reactions registered on a pending sessionPromise
    sent,                \* session.sendRealtimeInput calls, in order
    unhandled,           \* a derived promise rejected with no handler
    ticks,               \* interval callbacks run so far
    wire,                \* state of the remote session's connection
    lastEvent,           \* last console message of the session callbacks
    mounted,             \* App: the mount effect has run, cleanup has not
    started,             \* App: useState started
    loading,             \* App: useState loading
    error,               \* App: useState error ("null" or the message)
    handData,            \* App: useState handData, the held signal
    hsPc,                \* App.handleStart: the await it is suspended at
    videoReady,          \* videoRef.current.videoWidth is non-zero
    progress,            \* currentProgress.current of every entity
    frames,              \* rendered frames so far
    frameRead,           \* the handData prop the last frame callback read
    seen,                \* the hand states the frame callbacks have read
    camera,              \* state.camera.position, its x and y
    elapsedTime,         \* state.clock.elapsedTime
    lastDelta,           \* the delta of the last rendered frame
    twinData,            \* the handData prop of a second copy of the gold decor
    twinProgress,        \* currentProgress.current of that copy
    twinSame,            \* both copies read the same hand state on every frame
    registered,          \* the argument of the last setOnHandData call
    lastMsg,             \* the message last given to handleMessage
    lastCb,              \* the observer registered when it was handled
    calls,               \* observer invocations made by that handleMessage
    stopped              \* stop() has returned, startVideoStreaming not called since

svcVars  == <<sessionPromise, onHandDataCallback, videoInterval, timers,
              thens, sent, unhandled, ticks>>
netVars  == <<wire, lastEvent>>
appVars  == <<mounted, started, loading, error, hsPc, videoReady>>
animVars == <<progress, frames, frameRead, seen, camera, elapsedTime, lastDelta,
              twinData, twinProgress, twinSame>>
obsVars  == <<registered, lastMsg, lastCb, calls>>
histVars == <<obsVars, stopped>>
vars     == <<svcVars, netVars, appVars, handData, animVars, histVars>>

----------------------------------------------------------------------------
(* Numbers                                                                 *)

NaN == <<0, 0>>

Abs(n) == IF n < 0 THEN -n ELSE n

RECURSIVE GCD(_, _)
GCD(a, b) == IF b = 0 THEN a ELSE GCD(b, a % b)

Norm(n, d) ==
    IF d = 0 THEN NaN
    ELSE LET g == GCD(Abs(n), Abs(d))
             s == IF d < 0 THEN -1 ELSE 1
         IN  <<(s * n) \div g, (s * d) \div g>>

IsNaN(a) == a[2] = 0

RInt(n) == <<n, 1>>

RAdd(a, b) ==
    IF IsNaN(a) \/ IsNaN(b) THEN NaN
    ELSE Norm(a[1] * b[2] + b[1] * a[2], a[2] * b[2])

RSub(a, b) ==
    IF IsNaN(a) \/ IsNaN(b) THEN NaN
    ELSE Norm(a[1] * b[2] - b[1] * a[2], a[2] * b[2])

RMul(a, b) ==
    IF IsNaN(a) \/ IsNaN(b) THEN NaN
    ELSE Norm(a[1] * b[1], a[2] * b[2])

RDiv(a, b) ==
    IF IsNaN(a) \/ IsNaN(b) THEN NaN
    ELSE Norm(a[1] * b[2], a[2] * b[1])

\* Comparisons with NaN are false, as in IEEE arithmetic.
RLt(a, b) == ~IsNaN(a) /\ ~IsNaN(b) /\ a[1] * b[2] < b[1] * a[2]
RLe(a, b) == ~IsNaN(a) /\ ~IsNaN(b) /\ a[1] * b[2] <= b[1] * a[2]

RAbs(a) == <<Abs(a[1]), a[2]>>

\* Math.min / Math.max: NaN if either argument is NaN.
MathMin(a, b) ==
    IF IsNaN(a) \/ IsNaN(b) THEN NaN ELSE IF RLt(b, a) THEN b ELSE a

MathMax(a, b) ==
    IF IsNaN(a) \/ IsNaN(b) THEN NaN ELSE IF RLt(a, b) THEN b ELSE a

\* THREE.MathUtils.lerp(x, y, t) = (1 - t) * x + t * y
Lerp(x, y, t) == RAdd(RMul(RSub(RInt(1), t), x), RMul(t, y))

----------------------------------------------------------------------------
(* JavaScript values produced by JSON.parse                                *)

JNum(r)  == [k |-> "num",   n |-> r,   s |-> ""]
JStr(s)  == [k |-> "str",   n |-> NaN, s |-> s]
JLit(s)  == [k |-> s,       n |-> NaN, s |-> ""]   \* "null", "true", "false"
JObj     == [k |-> "obj",   n |-> NaN, s |-> ""]
JUndef   == [k |-> "undef", n |-> NaN, s |-> ""]

\* The strings of the model that Number(s) reads as a number.
NumericStrings == [s \in {"0.5"} |-> <<1, 2>>]

\* ToNumber, the coercion Math.min and Math.max apply to their arguments.
ToNumber(v) ==
    CASE v.k = "num"   -> v.n
      [] v.k = "str"   -> IF v.s = "" THEN RInt(0)
                          ELSE IF v.s \in DOMAIN NumericStrings
                               THEN NumericStrings[v.s] ELSE NaN
      [] v.k = "null"  -> RInt(0)
      [] v.k = "true"  -> RInt(1)
      [] v.k = "false" -> RInt(0)
      [] OTHER         -> NaN

\* ToBoolean, the test `json.state &&` applies.
Truthy(v) ==
    CASE v.k = "num"   -> ~IsNaN(v.n) /\ v.n[1] # 0
      [] v.k = "str"   -> v.s # ""
      [] v.k = "true"  -> TRUE
      [] v.k = "obj"   -> TRUE
      [] OTHER         -> FALSE

TypeofNumber(v) == v.k = "num"

\* Property read json.<key>: undefined when the key is absent.
Get(obj, key) == IF key \in DOMAIN obj THEN obj[key] ELSE JUndef

----------------------------------------------------------------------------
(* Text fragments as token sequences                                       *)

Tok(t, n, s) == [t |-> t, n |-> n, s |-> s]
LB     == Tok("{", NaN, "")
RB     == Tok("}", NaN, "")
COMMA  == Tok(",", NaN, "")
COLON  == Tok(":", NaN, "")
NL     == Tok("nl", NaN, "")          \* a line terminator
TXT    == Tok("txt", NaN, "")         \* free text without braces
STR(s) == Tok("str", NaN, s)          \* a JSON string literal
NUM(r) == Tok("num", r, "")           \* a JSON number literal
LIT(s) == Tok("lit", NaN, s)          \* null, true, false

\* text.match(/\{.*\}/): the leftmost "{" that has a "}" after it on the
\* same line, extended greedily to the last "}" of that line.  <<>> is null.
LineEnd(text, i) ==
    LET nls == {j \in i..Len(text) : text[j] = NL}
    IN  IF nls = {} THEN Len(text)
        ELSE (CHOOSE j \in nls : \A m \in nls : j <= m) - 1

Closers(text, i) == {j \in (i + 1)..LineEnd(text, i) : text[j] = RB}

Match(text) ==
    LET opens == {i \in 1..Len(text) : text[i] = LB /\ Closers(text, i) # {}}
    IN  IF opens = {} THEN <<>>
        ELSE LET i == CHOOSE a \in opens : \A b \in opens : a <= b
                 j == CHOOSE a \in Closers(text, i) :
                          \A b \in Closers(text, i) : b <= a
             IN  SubSeq(text, i, j)

\* JSON.parse, over tokens.  A result is [ok, next, val, obj]: next is the
\* index after the value read, obj the members of an object value.
Fail == [ok |-> FALSE, next |-> 0, val |-> JUndef, obj |-> <<>>]

RECURSIVE ParseValue(_, _)
RECURSIVE ParseMembers(_, _, _)

ParseValue(toks, i) ==
    IF i > Len(toks) THEN Fail
    ELSE CASE toks[i].t = "str" ->
                [ok |-> TRUE, next |-> i + 1, val |-> JStr(toks[i].s), obj |-> <<>>]
           [] toks[i].t = "num" ->
                [ok |-> TRUE, next |-> i + 1, val |-> JNum(toks[i].n), obj |-> <<>>]
           [] toks[i].t = "lit" ->
                [ok |-> TRUE, next |-> i + 1, val |-> JLit(toks[i].s), obj |-> <<>>]
           [] toks[i].t = "{" ->
                IF i + 1 <= Len(toks) /\ toks[i + 1] = RB
                THEN [ok |-> TRUE, next |-> i + 2, val |-> JObj, obj |-> <<>>]
                ELSE ParseMembers(toks, i + 1, <<>>)
           [] OTHER -> Fail

\* member ("," member)* "}" ; a repeated key keeps its last value.
ParseMembers(toks, i, acc) ==
    IF i + 1 > Len(toks) \/ toks[i].t # "str" \/ toks[i + 1] # COLON THEN Fail
    ELSE LET v == ParseValue(toks, i + 2)
         IN  IF ~v.ok \/ v.next > Len(toks) THEN Fail
             ELSE LET key  == toks[i].s
                      acc2 == [x \in (DOMAIN acc) \cup {key} |->
                                  IF x = key THEN v.val ELSE acc[x]]
                  IN  IF toks[v.next] = RB
                      THEN [ok |-> TRUE, next |-> v.next + 1,
                            val |-> JObj, obj |-> acc2]
                      ELSE IF toks[v.next] = COMMA
                           THEN ParseMembers(toks, v.next + 1, acc2)
                           ELSE Fail

\* JSON.parse(match[0]): white space is skipped, the whole text must be one
\* value; a failure is the SyntaxError the catch clause swallows.
JSONParse(toks) ==
    LET ws == SelectSeq(toks, LAMBDA t : t # NL)
        r  == ParseValue(ws, 1)
    IN  IF r.ok /\ r.next = Len(ws) + 1 THEN r ELSE Fail

----------------------------------------------------------------------------
(* Decode step of the gesture ingest                                       *)

HandStates == {"CLOSED", "OPEN", "UNKNOWN"}

NoCallback == "null"

\* json.state === 'OPEN' ? HandState.OPEN : HandState.CLOSED
StateOf(v) == IF v = JStr("OPEN") THEN "OPEN" ELSE "CLOSED"

\* Math.max(-1, Math.min(1, v))
Clamp(v) == MathMax(RInt(-1), MathMin(RInt(1), ToNumber(v)))

\* The guard of the publication: json.state && typeof json.x === 'number'
Accepts(json) == Truthy(Get(json, "state")) /\ TypeofNumber(Get(json, "x"))

\* tryParseJSON(text) with observer cb: the observer invocations it makes.
tryParseJSON(text, cb) ==
    LET m == Match(text)
    IN  IF m = <<>> THEN <<>>
        ELSE LET r == JSONParse(m)
             IN  IF ~r.ok THEN <<>>
                 ELSE IF Accepts(r.obj) /\ cb # NoCallback
                      THEN << [cb   |-> cb,
                               data |-> [state |-> StateOf(Get(r.obj, "state")),
                                         x     |-> Clamp(Get(r.obj, "x")),
                                         y     |-> Clamp(Get(r.obj, "y"))]] >>
                      ELSE <<>>

\* handleMessage(message): message is the list modelTurn.parts (empty when
\* serverContent, modelTurn or parts is missing); a part is its text, <<>>
\* when the part has no text or an empty one.
RECURSIVE handleMessage(_, _)
handleMessage(parts, cb) ==
    IF parts = <<>> THEN <<>>
    ELSE (IF Head(parts) # <<>> THEN tryParseJSON(Head(parts), cb) ELSE <<>>)
         \o handleMessage(Tail(parts), cb)

\* A partial update in place of the replacement: y keeps its old value.
setHandDataMerge(held, data) == [data EXCEPT !.y = held.y]

\* The observer App registers: (data) => setHandData(data).
setHandData(held, data) == data

\* The held signal after the observer invocations cs, in order.  Only the
\* observer "app" writes the App's state.
RECURSIVE Deliver(_, _)
Deliver(cs, held) ==
    IF cs = <<>> THEN held
    ELSE Deliver(Tail(cs),
                 IF Head(cs).cb = "app" THEN setHandData(held, Head(cs).data)
                 ELSE held)

----------------------------------------------------------------------------
(* Inputs: the fragments and messages the remote session may deliver       *)

MaxParts == 2

ABSENT == Tok("absent", NaN, "")

Member(key, v) == IF v = ABSENT THEN <<>> ELSE <<COMMA, STR(key), COLON, v>>

\* { "state": s, "x": x, "y": y } with the ABSENT members left out
Obj(s, x, y) ==
    LET ms == Member("state", s) \o Member("x", x) \o Member("y", y)
    IN  <<LB>> \o (IF ms = <<>> THEN <<>> ELSE Tail(ms)) \o <<RB>>

StateToks == {ABSENT, STR("OPEN"), STR("FIST"), STR("")}
XToks     == {ABSENT, NUM(<<5, 2>>), NUM(<<-1, 2>>), STR("0.5")}
YToks     == {ABSENT, NUM(<<-3, 1>>), STR("abc"), LIT("null")}

OpenFar   == Obj(STR("OPEN"), NUM(<<5, 2>>), NUM(<<-3, 1>>))
ClosedMid == Obj(STR("CLOSED"), NUM(<<0, 1>>), NUM(<<1, 2>>))
OpenNoY   == Obj(STR("OPEN"), NUM(<<0, 1>>), ABSENT)
OpenNoX   == Obj(STR("OPEN"), ABSENT, ABSENT)

CleanObjects == {Obj(s, x, y) : s \in StateToks, x \in XToks, y \in YToks}

Prefixes == {<<>>, <<TXT>>, <<LB, TXT>>, <<RB, TXT>>, <<LB, NL>>, <<TXT, NL>>}
Suffixes == {<<>>, <<TXT>>, <<RB>>, <<TXT, LB>>, <<NL, RB>>, <<TXT>> \o ClosedMid}

NoisyObjects == {p \o OpenFar \o s : p \in Prefixes, s \in Suffixes}

\* Chunks of an object cut by the stream, and an object printed over lines.
PartialObjects ==
    {SubSeq(OpenFar, 1, k) : k \in {1, 5, Len(OpenFar) - 1}}
        \cup {SubSeq(OpenFar, k, Len(OpenFar)) : k \in {2, 6}}
        \cup {<<LB, NL>> \o Tail(OpenFar), <<TXT>>,
              Obj(STR("OPEN"), NUM(<<0, 1>>), NUM(<<1, 2>>))
                  \o <<NL>> \o ClosedMid,
              <<LB, STR("x"), COLON, NUM(<<1, 1>>), COMMA, STR("state"), COLON,
                LB, RB, COMMA, STR("x"), COLON, NUM(<<0, 1>>), RB>>}

Fragments == CleanObjects \cup NoisyObjects \cup PartialObjects \cup {ClosedMid}

SmallFragments == {<<>>, OpenFar, ClosedMid, OpenNoX}

ParseMessages ==
    {<<f>> : f \in Fragments}
        \cup UNION {[1..n -> SmallFragments] : n \in 2..MaxParts}
        \cup {<<>>}

----------------------------------------------------------------------------
(* State after construction                                                *)

Entities == {"foliage", "gift", "gold", "ruby", "light"}

InitialHandData == [state |-> "CLOSED", x |-> RInt(0), y |-> RInt(0)]

\* <PerspectiveCamera makeDefault position={[0, 4, 20]} />
InitialCamera == [x |-> RInt(0), y |-> RInt(4)]

Init ==
    /\ sessionPromise = "null"
    /\ onHandDataCallback = NoCallback
    /\ videoInterval = 0
    /\ timers = {}
    /\ thens = <<>>
    /\ sent = <<>>
    /\ unhandled = FALSE
    /\ ticks = 0
    /\ wire = "idle"
    /\ lastEvent = "none"
    /\ mounted = FALSE
    /\ started = FALSE
    /\ loading = FALSE
    /\ error = "null"
    /\ handData = InitialHandData
    /\ hsPc = "idle"
    /\ videoReady = FALSE
    /\ progress = [e \in Entities |-> RInt(1)]
    /\ frames = 0
    /\ frameRead = InitialHandData
    /\ seen = {}
    /\ camera = InitialCamera
    /\ elapsedTime = RInt(0)
    /\ lastDelta = RInt(0)
    /\ twinData = InitialHandData
    /\ twinProgress = RInt(1)
    /\ twinSame = TRUE
    /\ registered = NoCallback
    /\ lastMsg = <<>>
    /\ lastCb = NoCallback
    /\ calls = <<>>
    /\ stopped = FALSE

----------------------------------------------------------------------------
(* Operations of the service                                               *)

Observers == {"app", "aux"}

\* setOnHandData(callback)
setOnHandData(cb) == onHandDataCallback' = cb

SetOnHandData(cb) ==
    /\ setOnHandData(cb)
    /\ registered' = cb
    /\ UNCHANGED <<sessionPromise, videoInterval, timers, thens, sent,
                   unhandled, ticks>>
    /\ UNCHANGED <<netVars, appVars, handData, animVars, lastMsg, lastCb, calls,
                   stopped>>

\* handleMessage(message), the observer invocations included
HandleMessage(msg) ==
    /\ lastMsg' = msg
    /\ lastCb' = onHandDataCallback
    /\ calls' = handleMessage(msg, onHandDataCallback)
    /\ handData' = Deliver(calls', handData)
    /\ UNCHANGED <<registered, stopped>>
    /\ UNCHANGED <<svcVars, netVars, appVars, animVars>>

\* The prompt ahead of the frame it asks about
SubmissionPromptFirst(n) == << [kind |-> "prompt", tick |-> n],
                               [kind |-> "frame", tick |-> n] >>

\* A frame and the prompt that follows it (lines 129-141)
Submission(n) == << [kind |-> "frame", tick |-> n],
                    [kind |-> "prompt", tick |-> n] >>

RECURSIVE Submissions(_)
Submissions(ns) ==
    IF ns = <<>> THEN <<>> ELSE Submission(Head(ns)) \o Submissions(Tail(ns))

MaxTimers == 2
MaxTicks == 2

\* startVideoStreaming(videoElement): window.setInterval hands out a fresh
\* id, which overwrites videoInterval.
startVideoStreaming ==
    /\ videoInterval' = videoInterval + 1
    /\ timers' = timers \cup {videoInterval + 1}
    /\ stopped' = FALSE

StartVideoStreaming ==
    /\ videoInterval < MaxTimers
    /\ startVideoStreaming
    /\ UNCHANGED <<sessionPromise, onHandDataCallback, thens, sent,
                   unhandled, ticks>>
    /\ UNCHANGED <<netVars, appVars, handData, animVars, obsVars>>

\* The interval callback (lines 118-144) of a live timer, with the promise
\* reaction it registers: on a fulfilled promise the reaction runs in the
\* microtask that follows the callback, on a pending one it waits, on a
\* rejected one the promise returned by then() rejects with no handler.
Tick(id) ==
    /\ id \in timers
    /\ ticks < MaxTicks
    /\ ticks' = ticks + 1
    /\ IF sessionPromise = "null" \/ ~videoReady
       THEN UNCHANGED <<thens, sent, unhandled>>
       ELSE CASE sessionPromise = "fulfilled" ->
                   /\ sent' = sent \o Submission(ticks + 1)
                   /\ UNCHANGED <<thens, unhandled>>
              [] sessionPromise = "pending" ->
                   /\ thens' = Append(thens, ticks + 1)
                   /\ UNCHANGED <<sent, unhandled>>
              [] sessionPromise = "rejected" ->
                   /\ unhandled' = TRUE
                   /\ UNCHANGED <<thens, sent>>
    /\ UNCHANGED <<sessionPromise, onHandDataCallback, videoInterval, timers>>
    /\ UNCHANGED <<netVars, appVars, handData, animVars, histVars>>

\* stop(): clearInterval(this.videoInterval) when it is set
stop ==
    /\ timers' = IF videoInterval # 0 THEN timers \ {videoInterval} ELSE timers
    /\ stopped' = TRUE

Stop ==
    /\ stop
    /\ UNCHANGED <<sessionPromise, onHandDataCallback, videoInterval, thens,
                   sent, unhandled, ticks>>
    /\ UNCHANGED <<netVars, appVars, handData, animVars, obsVars>>

\* connect() up to its await: this.sessionPromise = this.ai.live.connect(config)
connect ==
    /\ sessionPromise' = "pending"
    /\ wire' = "connecting"

Connect ==
    /\ sessionPromise \in {"null", "rejected"}
    /\ connect
    /\ UNCHANGED <<onHandDataCallback, videoInterval, timers, thens, sent,
                   unhandled, ticks>>
    /\ UNCHANGED <<lastEvent, appVars, handData, animVars, histVars>>

----------------------------------------------------------------------------
(* The remote session (callbacks of lines 32-45)                           *)

\* onopen
OnOpen ==
    /\ wire = "connecting"
    /\ wire' = "open"
    /\ lastEvent' = "opened"
    /\ UNCHANGED <<svcVars, appVars, handData, animVars, histVars>>

\* onmessage: this.handleMessage(message)
OnMessage(msg) ==
    /\ wire = "open"
    /\ HandleMessage(msg)

\* A close handler that also clears the held signal
OnCloseResetsSignal ==
    /\ wire = "open"
    /\ wire' = "closed"
    /\ lastEvent' = "closed"
    /\ handData' = InitialHandData
    /\ UNCHANGED <<svcVars, appVars, animVars, histVars>>

\* onclose
OnClose ==
    /\ wire = "open"
    /\ wire' = "closed"
    /\ lastEvent' = "closed"
    /\ UNCHANGED <<svcVars, appVars, handData, animVars, histVars>>

\* onerror
OnError ==
    /\ wire \in {"connecting", "open"}
    /\ lastEvent' = "error"
    /\ UNCHANGED <<wire, svcVars, appVars, handData, animVars, histVars>>

----------------------------------------------------------------------------
(* App.handleStart (lines 33-63), one action per run between two awaits    *)

FailureMessage == "Failed to initialize"

\* The catch clause without the finally clause
catchOnly ==
    /\ error' = FailureMessage
    /\ hsPc' = "idle"
    /\ UNCHANGED <<started, loading>>

\* catch and finally: setError(...), setLoading(false)
catchFinally ==
    /\ error' = FailureMessage
    /\ loading' = FALSE
    /\ hsPc' = "idle"
    /\ UNCHANGED started

\* The button is rendered while !started and disabled while loading.
HandleStart ==
    /\ mounted /\ ~started /\ ~loading /\ hsPc = "idle"
    /\ loading' = TRUE
    /\ error' = "null"
    /\ hsPc' = "getUserMedia"
    /\ UNCHANGED <<mounted, started, videoReady>>
    /\ UNCHANGED <<svcVars, netVars, handData, animVars, histVars>>

\* getUserMedia resolved: with a video element, await play(); without one,
\* go on to connect().
GetUserMediaResolved ==
    /\ hsPc = "getUserMedia"
    /\ IF mounted
       THEN /\ hsPc' = "play"
            /\ UNCHANGED <<sessionPromise, wire>>
       ELSE /\ hsPc' = "connect"
            /\ connect
    /\ UNCHANGED <<mounted, started, loading, error, videoReady>>
    /\ UNCHANGED <<onHandDataCallback, videoInterval, timers, thens, sent,
                   unhandled, ticks>>
    /\ UNCHANGED <<lastEvent, handData, animVars, histVars>>

GetUserMediaRejected ==
    /\ hsPc = "getUserMedia"
    /\ catchFinally
    /\ UNCHANGED <<mounted, videoReady>>
    /\ UNCHANGED <<svcVars, netVars, handData, animVars, histVars>>

\* play() resolved: the element shows the stream; connect() is called.
PlayResolved ==
    /\ hsPc = "play"
    /\ videoReady' = TRUE
    /\ hsPc' = "connect"
    /\ connect
    /\ UNCHANGED <<mounted, started, loading, error>>
    /\ UNCHANGED <<onHandDataCallback, videoInterval, timers, thens, sent,
                   unhandled, ticks>>
    /\ UNCHANGED <<lastEvent, handData, animVars, histVars>>

PlayRejected ==
    /\ hsPc = "play"
    /\ catchFinally
    /\ UNCHANGED <<mounted, videoReady>>
    /\ UNCHANGED <<svcVars, netVars, handData, animVars, histVars>>

\* The session promise fulfils.  In one microtask checkpoint: the reactions
\* the ticks registered run in order, and a handleStart suspended in
\* connect() resumes (lines 51-56 and the finally clause).
SessionResolved ==
    /\ sessionPromise = "pending" /\ wire = "open"
    /\ (hsPc = "connect" /\ mounted) => videoInterval < MaxTimers
    /\ sessionPromise' = "fulfilled"
    /\ sent' = sent \o Submissions(thens)
    /\ thens' = <<>>
    /\ IF hsPc = "connect"
       THEN /\ IF mounted
               THEN startVideoStreaming
               ELSE UNCHANGED <<videoInterval, timers, stopped>>
            /\ started' = TRUE
            /\ loading' = FALSE
            /\ hsPc' = "idle"
            /\ UNCHANGED <<mounted, error, videoReady>>
       ELSE UNCHANGED <<videoInterval, timers, stopped, appVars>>
    /\ UNCHANGED <<onHandDataCallback, unhandled, ticks>>
    /\ UNCHANGED <<netVars, handData, animVars, obsVars>>

\* The session promise rejects: every reaction registered by a tick leaves
\* a rejected promise nobody handles; a suspended handleStart goes to catch.
SessionRejected ==
    /\ sessionPromise = "pending"
    /\ sessionPromise' = "rejected"
    /\ wire' = "closed"
    /\ unhandled' = (unhandled \/ thens # <<>>)
    /\ thens' = <<>>
    /\ IF hsPc = "connect"
       THEN catchFinally /\ UNCHANGED <<mounted, videoReady>>
       ELSE UNCHANGED appVars
    /\ UNCHANGED <<onHandDataCallback, videoInterval, timers, sent, ticks>>
    /\ UNCHANGED <<lastEvent, handData, animVars, histVars>>

\* The mount effect (lines 20-27) and its cleanup (lines 28-30)
Mount ==
    /\ ~mounted
    /\ mounted' = TRUE
    /\ setOnHandData("app")
    /\ registered' = "app"
    /\ UNCHANGED <<started, loading, error, hsPc, videoReady>>
    /\ UNCHANGED <<sessionPromise, videoInterval, timers, thens, sent,
                   unhandled, ticks>>
    /\ UNCHANGED <<netVars, handData, animVars, lastMsg, lastCb, calls, stopped>>

Unmount ==
    /\ mounted
    /\ mounted' = FALSE
    /\ stop
    /\ UNCHANGED <<started, loading, error, hsPc, videoReady>>
    /\ UNCHANGED <<sessionPromise, onHandDataCallback, videoInterval, thens,
                   sent, unhandled, ticks>>
    /\ UNCHANGED <<netVars, handData, animVars, obsVars>>

----------------------------------------------------------------------------
(* Formation animator: the useFrame callbacks of Tree.tsx                  *)

Decor == Entities \ {"foliage"}

\* The weight prop of each InstancedDecor (Tree.tsx lines 287, 299, 311, 323)
Weight(e) ==
    CASE e = "gift"  -> <<9, 5>>
      [] e = "gold"  -> <<6, 5>>
      [] e = "ruby"  -> <<6, 5>>
      [] e = "light" -> <<4, 5>>

\* targetProgress / targetP: 0 when the hand is open, else 1
TargetProgress(state) == IF state = "OPEN" THEN RInt(0) ELSE RInt(1)

\* The weight applied as a factor instead of a divisor
SpeedTimesWeight(e, state) ==
    IF e = "foliage"
    THEN (IF state = "OPEN" THEN <<5, 2>> ELSE RInt(1))
    ELSE RMul(IF state = "OPEN" THEN RInt(3) ELSE <<3, 2>>, Weight(e))

\* The same rate in both directions
SpeedSymmetric(e, state) ==
    IF e = "foliage" THEN RInt(1) ELSE RDiv(<<3, 2>>, Weight(e))

\* speed: foliage 2.5 or 1.0; decor (3.0 or 1.5) / weight
Speed(e, state) ==
    IF e = "foliage"
    THEN (IF state = "OPEN" THEN <<5, 2>> ELSE RInt(1))
    ELSE RDiv(IF state = "OPEN" THEN RInt(3) ELSE <<3, 2>>, Weight(e))

\* currentProgress.current after one frame
NextProgress(e, p, state, delta) ==
    Lerp(p, TargetProgress(state), RMul(delta, Speed(e, state)))

\* A frame callback whose step grows with the distance of the hand from
\* the centre
useFrameProgressPanned(e, p, hd, clock, delta) ==
    NextProgress(e, p, hd.state, RMul(delta, RAdd(RInt(1), RAbs(hd.x))))

\* The frame callback of an entity, given all it can read: its
\* currentProgress ref, the handData prop, the clock and the delta.  What
\* it reads of the clock goes to the rotation and to uTime only.
useFrameProgress(e, p, hd, clock, delta) ==
    NextProgress(e, p, hd.state, delta)

\* targetX, targetY of CameraController (Experience.tsx lines 21-22)
CameraTarget(hd) ==
    [x |-> RAdd(RInt(0), RMul(hd.x, RInt(-5))),
     y |-> RAdd(RInt(4), RMul(hd.y, RInt(3)))]

\* The frame callback of CameraController: it takes the frame state only,
\* not the delta, and steps by 0.05 of the distance.
useFrameCamera(pos, hd) ==
    [x |-> Lerp(pos.x, CameraTarget(hd).x, <<1, 20>>),
     y |-> Lerp(pos.y, CameraTarget(hd).y, <<1, 20>>)]

\* The clock of the scene the second copy is rendered in started earlier.
TwinClockOffset == <<1, 2>>

MaxFrames == 3

\* One rendered frame: every useFrame callback runs with the same delta and
\* the handData prop of the last render.
Frame(delta) ==
    /\ frames < MaxFrames
    /\ frames' = frames + 1
    /\ frameRead' = handData
    /\ seen' = seen \cup {handData.state}
    /\ elapsedTime' = RAdd(elapsedTime, delta)
    /\ lastDelta' = delta
    /\ progress' = [e \in Entities |->
           useFrameProgress(e, progress[e], handData, elapsedTime', delta)]
    /\ camera' = useFrameCamera(camera, handData)
    /\ twinProgress' =
           useFrameProgress("gold", twinProgress, twinData,
                            RAdd(elapsedTime', TwinClockOffset), delta)
    /\ twinSame' = (twinSame /\ twinData.state = handData.state)
    /\ UNCHANGED <<svcVars, netVars, appVars, handData, twinData, histVars>>

\* Seconds between two frames: none, 0.2, 0.4, 0.8
Deltas == {<<0, 1>>, <<1, 5>>, <<2, 5>>, <<4, 5>>}

----------------------------------------------------------------------------
(* The program: the App, its service, the remote session, the frame loop   *)

AppMessages == {<<ClosedMid>>, <<OpenNoY>>, <<SubSeq(OpenFar, 1, 5)>>,
                <<OpenFar, ClosedMid>>, <<ClosedMid, OpenNoX, OpenFar>>}

AppDeltas == {<<2, 5>>}

Next ==
    \/ Mount
    \/ Unmount
    \/ HandleStart
    \/ GetUserMediaResolved
    \/ GetUserMediaRejected
    \/ PlayResolved
    \/ PlayRejected
    \/ OnOpen
    \/ SessionResolved
    \/ SessionRejected
    \/ \E msg \in AppMessages : OnMessage(msg)
    \/ OnClose
    \/ OnError
    \/ \E id \in 1..MaxTimers : Tick(id)
    \/ \E delta \in AppDeltas : Frame(delta)

Spec == Init /\ [][Next]_vars

----------------------------------------------------------------------------
(* The animator under signals published by the decode step                 *)

AnimMessages == {<<OpenFar>>, <<ClosedMid>>}

NextAnim ==
    \/ Mount
    \/ \E msg \in AnimMessages : HandleMessage(msg)
    \/ \E delta \in Deltas : Frame(delta)

SpecAnim == Init /\ [][NextAnim]_vars

\* The same with frames of at most 4/15 s, for which delta * speed <= 1
SlowDeltas == {<<0, 1>>, <<1, 10>>, <<1, 5>>, <<4, 15>>}

NextAnimSlow ==
    \/ Mount
    \/ \E msg \in AnimMessages : HandleMessage(msg)
    \/ \E delta \in SlowDeltas : Frame(delta)

SpecAnimSlow == Init /\ [][NextAnimSlow]_vars

----------------------------------------------------------------------------
(* The service driven through its public methods in any order              *)

\* The caller's video element starts to show its stream (videoWidth > 0).
VideoPlaying ==
    /\ ~videoReady
    /\ videoReady' = TRUE
    /\ UNCHANGED <<mounted, started, loading, error, hsPc>>
    /\ UNCHANGED <<svcVars, netVars, handData, animVars, histVars>>

ServiceMessages == {<<ClosedMid>>, <<OpenNoY>>}

NextService ==
    \/ \E cb \in Observers : SetOnHandData(cb)
    \/ Connect
    \/ StartVideoStreaming
    \/ Stop
    \/ VideoPlaying
    \/ OnOpen
    \/ SessionResolved
    \/ SessionRejected
    \/ \E msg \in ServiceMessages : OnMessage(msg)
    \/ OnClose
    \/ OnError
    \/ \E id \in 1..MaxTimers : Tick(id)

SpecService == Init /\ [][NextService]_vars

----------------------------------------------------------------------------
(* Delivery: observers, messages of several parts, and the frames between  *)

DeliverFragments == {OpenFar, ClosedMid, OpenNoX}

DeliverMessages == UNION {[1..n -> DeliverFragments] : n \in 1..MaxParts}

NextDeliver ==
    \/ \E cb \in Observers : SetOnHandData(cb)
    \/ \E msg \in DeliverMessages : HandleMessage(msg)
    \/ \E delta \in AppDeltas : Frame(delta)

SpecDeliver == Init /\ [][NextDeliver]_vars

----------------------------------------------------------------------------
(* The decode path alone: any observer, any fragment                       *)

NextParse ==
    \/ SetOnHandData("app")
    \/ \E msg \in ParseMessages : HandleMessage(msg)

SpecParse == Init /\ [][NextParse]_vars

----------------------------------------------------------------------------
(* The scene driven through its handData prop                              *)

\* Values of the HandData type (part_000 lines 160-170)
PropSignals ==
    { [state |-> "OPEN",    x |-> RInt(1),   y |-> RInt(-1)],
      [state |-> "CLOSED",  x |-> <<-1, 2>>, y |-> <<1, 2>>],
      [state |-> "UNKNOWN", x |-> RInt(0),   y |-> RInt(1)] }

\* <Experience handData={...} /> rendered with a new value of the prop
Render(hd) ==
    /\ handData # hd
    /\ handData' = hd
    /\ UNCHANGED <<svcVars, netVars, appVars, animVars, histVars>>

NextScene ==
    \/ \E hd \in PropSignals : Render(hd)
    \/ \E delta \in Deltas : Frame(delta)

SpecScene == Init /\ [][NextScene]_vars

\* The second copy of the gold decor rendered with a new value of its prop
RenderTwin(hd) ==
    /\ twinData # hd
    /\ twinData' = hd
    /\ UNCHANGED <<progress, frames, frameRead, seen, camera, elapsedTime,
                   lastDelta, twinProgress, twinSame>>
    /\ UNCHANGED <<svcVars, netVars, appVars, handData, histVars>>

\* Signals that differ in state, in position, or in both
TwinSignals ==
    { [state |-> "OPEN",   x |-> RInt(1),   y |-> RInt(-1)],
      [state |-> "OPEN",   x |-> <<-1, 2>>, y |-> <<1, 2>>],
      [state |-> "CLOSED", x |-> RInt(1),   y |-> RInt(-1)] }

TwinDeltas == {<<1, 5>>, <<2, 5>>}

NextTwin ==
    \/ \E hd \in TwinSignals : Render(hd)
    \/ \E hd \in TwinSignals : RenderTwin(hd)
    \/ \E delta \in TwinDeltas : Frame(delta)

SpecTwin == Init /\ [][NextTwin]_vars

----------------------------------------------------------------------------
(* What the specification calls a valid fragment                           *)

\* The brace-delimited stretches of a fragment that are JSON objects
EmbeddedObjects(text) ==
    {SubSeq(text, i, j) : i, j \in {k \in 1..Len(text) : text[k] \in {LB, RB}}}
        \cap {t \in {SubSeq(text, i, j) : i, j \in 1..Len(text)} :
                 /\ Len(t) >= 2
                 /\ t[1] = LB
                 /\ t[Len(t)] = RB
                 /\ JSONParse(t).ok}

\* state is a non-empty string, x and y are numbers
HasValidFields(t) ==
    LET o == JSONParse(t).obj
    IN  /\ Get(o, "state").k = "str" /\ Get(o, "state").s # ""
        /\ Get(o, "x").k = "num"
        /\ Get(o, "y").k = "num"

\* one of the keys state, x, y is absent
LacksField(t) == {"state", "x", "y"} \ DOMAIN JSONParse(t).obj # {}

ClampTo(r) ==
    IF RLt(r, RInt(-1)) THEN RInt(-1) ELSE IF RLt(RInt(1), r) THEN RInt(1) ELSE r

ExpectedSignal(t) ==
    LET o == JSONParse(t).obj
    IN  [state |-> IF Get(o, "state").s = "OPEN" THEN "OPEN" ELSE "CLOSED",
         x     |-> ClampTo(Get(o, "x").n),
         y     |-> ClampTo(Get(o, "y").n)]

InRange(r) == RLe(RInt(-1), r) /\ RLe(r, RInt(1))

----------------------------------------------------------------------------
(* Claims                                                                  *)

\* C1: every fragment that contains a brace-delimited JSON object with a
\* valid state string and numeric x and y publishes exactly one signal to
\* the registered observer, with x and y clamped to [-1, 1] and the state
\* mapped to OPEN or CLOSED.
C1_EmbeddedObjectPublished ==
    (/\ lastCb # NoCallback
     /\ Len(lastMsg) = 1
     /\ \E t \in EmbeddedObjects(lastMsg[1]) : HasValidFields(t))
    => /\ Len(calls) = 1
       /\ \E t \in EmbeddedObjects(lastMsg[1]) :
              HasValidFields(t) /\ calls[1].data = ExpectedSignal(t)

\* C2: a fragment that is malformed or partial (no JSON object in it), or
\* whose object lacks state, x or y, is discarded: the observer is not
\* invoked.
C2_DeficientFragmentDiscarded ==
    (/\ Len(lastMsg) = 1
     /\ \A t \in EmbeddedObjects(lastMsg[1]) : LacksField(t))
    => calls = <<>>

\* C3: in every reachable state the held signal has x and y in [-1, 1] and
\* a state among OPEN, CLOSED, UNKNOWN.
C3_HeldSignalInRange ==
    /\ handData.state \in HandStates
    /\ InRange(handData.x)
    /\ InRange(handData.y)

\* C4: the progress of every entity stays within [0, 1] after any sequence
\* of frames and signals, whatever the frame deltas.
C4_ProgressInUnitInterval ==
    \A e \in Entities :
        RLe(RInt(0), progress[e]) /\ RLe(progress[e], RInt(1))

\* C5: while every frame so far has read the same hand state, each frame
\* moves every entity's progress toward the target of that state and never
\* past it: down to no less than 0 under OPEN, up to no more than 1
\* otherwise.
C5_HeldSignalMonotone ==
    [][(frames' = frames + 1 /\ Cardinality(seen') = 1) =>
          \A e \in Entities :
              IF handData.state = "OPEN"
              THEN RLe(progress'[e], progress[e]) /\ RLe(RInt(0), progress'[e])
              ELSE RLe(progress[e], progress'[e]) /\ RLe(progress'[e], RInt(1))
      ]_vars

\* Distance of an entity from the target of the frame last rendered
Dist(e) == RAbs(RSub(progress[e], TargetProgress(frameRead.state)))

\* C6, as claimed: after every frame of a shared history the heavier of two
\* decor entities is no closer to the current target than the lighter one.
C6_HeavierNeverCloser ==
    frames > 0 =>
        \A e1, e2 \in Decor :
            RLt(Weight(e1), Weight(e2)) => RLe(Dist(e1), Dist(e2))

\* The part of the remaining distance to the target an entity covers in
\* the step (defined when it is not at the target)
Covered(e) ==
    RDiv(RSub(progress'[e], progress[e]),
         RSub(TargetProgress(handData.state), progress[e]))

\* C6, as amended: on every frame of non-zero delta the heavier of two decor
\* entities that are not at the target covers a strictly smaller, positive
\* part of its remaining distance to the target than the lighter one.
C6_HeavierCoversLess ==
    [][frames' = frames + 1 =>
          \A e1, e2 \in Decor :
              (/\ RLt(Weight(e1), Weight(e2))
               /\ progress[e1] # TargetProgress(handData.state)
               /\ progress[e2] # TargetProgress(handData.state)
               /\ progress'[e1] # progress[e1])
              => /\ RLt(RInt(0), Covered(e2))
                 /\ RLt(Covered(e2), Covered(e1))
      ]_vars

\* Two OPEN frames have separated the light from the heavy ornaments.
C6_Witness ==
    /\ frames >= 2
    /\ seen = {"OPEN"}
    /\ RLt(progress["light"], progress["gold"])
    /\ RLt(progress["gold"], progress["gift"])
    /\ RLt(progress["gift"], RInt(1))

\* C7: a tick that fires while the session is not established submits no
\* frame, then or later, and leaves no rejected promise: submissions are
\* made only by ticks that find the session established.
C7_TickSkippedUntilEstablished ==
    [][/\ (ticks' = ticks + 1 /\ sessionPromise # "fulfilled")
          => (sent' = sent /\ thens' = thens /\ unhandled' = unhandled)
       /\ sent' # sent => (ticks' = ticks + 1 /\ sessionPromise = "fulfilled")
      ]_vars

\* C8: a handleStart that ends by a failed getUserMedia, play or connect
\* sets the error, leaves started false and starts no timer; every
\* completed handleStart leaves loading false and exactly one of started
\* and error set.
C8_StartOutcome ==
    [][(hsPc # "idle" /\ hsPc' = "idle") =>
          /\ ~loading'
          /\ started' # (error' # "null")
          /\ (hsPc \in {"getUserMedia", "play"} \/ sessionPromise' = "rejected")
             => /\ error' = FailureMessage
                /\ ~started'
                /\ videoInterval' = 0
                /\ timers' = {}
      ]_vars

\* A handleStart has ended on a rejected connect.
C8_Witness ==
    /\ hsPc = "idle"
    /\ sessionPromise = "rejected"
    /\ error = FailureMessage
    /\ ~started
    /\ ~loading

Delivered ==
    /\ onHandDataCallback = registered
    /\ \A i \in DOMAIN calls : calls[i].cb = lastCb
    /\ (lastCb = "app" /\ calls # <<>>) => handData = calls[Len(calls)].data

\* C10: setOnHandData replaces the observer and only the one registered
\* last is invoked; every publication overwrites the held signal whole;
\* a frame reads the signal published last, also after several
\* publications since the frame before.
C10_LastPublicationWins ==
    [][Delivered' /\ (frames' = frames + 1 => frameRead' = handData)]_vars

\* One message published two different signals to the App's observer,
\* which replaced another one, and a frame has read the second.
C10_Witness ==
    /\ lastCb = "app"
    /\ Len(calls) >= 2
    /\ calls[1].data # calls[Len(calls)].data
    /\ frames > 0
    /\ frameRead = calls[Len(calls)].data

\* The rates by name: foliage 2.5 toward 0 and 1.0 toward 1, decor
\* 3.0 / weight toward 0 and 1.5 / weight toward 1
NamedRate(e, open) ==
    IF e = "foliage"
    THEN (IF open THEN <<5, 2>> ELSE RInt(1))
    ELSE RDiv(IF open THEN RInt(3) ELSE <<3, 2>>, Weight(e))

\* C11: on every frame the target of every entity is 0 exactly when the
\* state read is OPEN and 1 when it is CLOSED or UNKNOWN; the entity moves
\* by the step fraction delta times its rate of the remaining distance to
\* that target; and its rate toward 0 is strictly greater than its rate
\* toward 1.
C11_TargetAndAsymmetricRate ==
    [][frames' = frames + 1 =>
          \A e \in Entities :
              LET open   == handData.state = "OPEN"
                  target == IF open THEN RInt(0) ELSE RInt(1)
              IN  /\ handData.state \in {"OPEN", "CLOSED", "UNKNOWN"}
                  /\ TargetProgress(handData.state) = target
                  /\ Speed(e, handData.state) = NamedRate(e, open)
                  /\ RSub(progress'[e], progress[e]) =
                        RMul(RMul(lastDelta', NamedRate(e, open)),
                             RSub(target, progress[e]))
                  /\ \A s \in {"CLOSED", "UNKNOWN"} :
                        RLt(Speed(e, s), Speed(e, "OPEN"))
      ]_vars

\* Frames have read OPEN and UNKNOWN: the entities went toward 0 and then
\* back toward 1 without reaching it, the last frame taking time.
C11_Witness ==
    /\ {"OPEN", "UNKNOWN"} \subseteq seen
    /\ frameRead.state = "UNKNOWN"
    /\ lastDelta # RInt(0)
    /\ \A e \in Entities :
           RLt(RInt(0), progress[e]) /\ RLt(progress[e], RInt(1))

\* b lies between a and c, ends included
Between(a, b, c) == (RLe(a, b) /\ RLe(b, c)) \/ (RLe(c, b) /\ RLe(b, a))

\* C12: on every frame the camera's x and y move toward the targets
\* -5 * signal.x and 4 + 3 * signal.y, by a step scaled by the frame time
\* as the step of progress is: a frame of zero delta moves neither the
\* progress of an entity nor the camera.
C12_CameraStepScaledByFrameTime ==
    [][frames' = frames + 1 =>
          LET tx == RMul(RInt(-5), handData.x)
              ty == RAdd(RInt(4), RMul(RInt(3), handData.y))
          IN  /\ Between(camera.x, camera'.x, tx)
              /\ Between(camera.y, camera'.y, ty)
              /\ lastDelta' = RInt(0) => (progress' = progress /\ camera' = camera)
      ]_vars

\* C13: two copies of an entity of equal weight that start at equal
\* progress and read equal hand states and deltas on every frame have equal
\* progress after every frame, whatever the x and y of their signals, their
\* clocks and the signals they held between the frames; so have the two
\* decor entities of weight 1.2 of the tree.
C13_EqualInputsEqualProgress ==
    /\ twinSame => twinProgress = progress["gold"]
    /\ Weight("gold") = Weight("ruby") => progress["gold"] = progress["ruby"]

\* Both copies have gone part of the way to 0 and back over frames on
\* which they read equal states, and hold signals of different x and y.
C13_Witness ==
    /\ twinSame
    /\ frames >= 2
    /\ seen = {"OPEN", "CLOSED"}
    /\ twinData.state = handData.state
    /\ twinData.x # handData.x
    /\ twinData.y # handData.y
    /\ RLt(RInt(0), twinProgress) /\ RLt(twinProgress, RInt(1))

\* C14: once stop() has returned and until startVideoStreaming is called
\* again, no interval timer is alive and no frame is submitted to the
\* session.
C14_StoppedMeansSilent ==
    [][/\ stopped' => timers' = {}
       /\ (stopped /\ stopped') => sent' = sent
      ]_vars

\* C15: a tick that captures a frame while the session is established
\* submits that frame and then the prompt, the two next to each other and
\* after everything submitted before; all submissions are such pairs, in
\* the order of the ticks that captured them.
C15_FrameThenPromptInCaptureOrder ==
    [][/\ (ticks' = ticks + 1 /\ sessionPromise = "fulfilled" /\ videoReady)
          => sent' = sent \o << [kind |-> "frame",  tick |-> ticks'],
                                [kind |-> "prompt", tick |-> ticks'] >>
       /\ Len(sent') % 2 = 0
       /\ \A i \in DOMAIN sent' :
             /\ sent'[i].kind = (IF i % 2 = 1 THEN "frame" ELSE "prompt")
             /\ i % 2 = 0 => sent'[i].tick = sent'[i - 1].tick
             /\ i > 2 => sent'[i - 2].tick < sent'[i].tick
      ]_vars

\* Two ticks of the timer handleStart started have each submitted a frame
\* and a prompt.
C15_Witness ==
    /\ started
    /\ sessionPromise = "fulfilled"
    /\ ticks = 2
    /\ Len(sent) = 4
    /\ sent[1].tick = 1
    /\ sent[3].tick = 2

====
